---- MODULE Spec2Model ----
(***************************************************************************)
(* Model of animation-streamer-builder's audio core:                       *)
(*   - analyzeAudio (src/src/lib/audio.ts): the window scan with           *)
(*     hysteresis, flushSegment, the leading-idle insertion, the talk      *)
(*     merge and the id rebuild;                                           *)
(*   - buildTimelinePlan (src/unnamed/part_000): the clip scheduler;       *)
(*   - buildAlignedAudioBuffer and audioBufferToWav (audio.ts).            *)
(*                                                                         *)
(* Units.  In the segmenter every time is a whole number of samples        *)
(* divided by the sample rate, so times are kept in samples and a          *)
(* comparison with a constant in seconds is cross-multiplied by the        *)
(* sample rate.  In the scheduler times are kept in milliseconds.          *)
(* Loudness values are kept in thousandths.                                *)
(***************************************************************************)
EXTENDS Integers, Sequences, FiniteSets, TLC

VARIABLES
    \* ---- analyzeAudio
    sampleRate,     \* audioBuffer.sampleRate
    totalSamples,   \* audioBuffer.length
    rmsValues,      \* one loudness value per window, in thousandths
    block,          \* loop index of the window scan (0-based)
    currentKind,    \* "idle" | "talk"
    currentStart,   \* in samples
    silenceBlocks,
    segments,       \* sequence of [id, kind, start, duration]
    apc,            \* "rms" | "rmsDone" | "scan" | "done" | "off"
    \* ---- buildTimelinePlan
    planSegments,   \* the segments argument, times in milliseconds
    clips,          \* the clips argument: sequence of [id, type, duration]
    placements,     \* sequence of [clip, start]
    talkPlans,      \* sequence of TalkPlan records
    videoCursor,
    previousKind,
    counters,       \* MotionType -> number
    segIndex,       \* i of the segment loop (0-based)
    covered,        \* coverSegment's local
    segmentVideoStart,
    coverLog,       \* history: per covered segment, the placements it was given
    ppc,            \* "entry" | "segment" | "cover" | "returned" | "error"
                    \* | "aligned" | "off"
    \* ---- buildAlignedAudioBuffer
    outputLength,   \* output.length
    writes,         \* the output.set calls made: [plan, target, length, source]
    \* ---- audioBufferToWav
    channelData,    \* per channel, the samples in halves (2 is 1.0, -3 is -1.5)
    view,           \* the bytes of arrayBuffer; view[k + 1] is the byte at offset k
    wavOffset,      \* offset
    wavIndex,       \* i of the sample loop
    wavChannel,     \* channel of the inner loop
    wpc,            \* "start" | "samples" | "done" | "off"
    \* ---- mergeAdjacentTalkSegments applied on its own
    mergeInput,     \* the segments argument, times in samples
    mergeOnce,      \* the list returned for mergeInput
    mergeTwice,     \* the list returned for mergeOnce
    mpc,            \* "start" | "once" | "twice" | "off"
    \* ---- waitForVoicevoxCloudAudio
    attempt,        \* loop index
    requests,       \* history: number of status requests made
    lastResponse,   \* history: the last status response, NoResponse before any
    earlierPending, \* history: every response before the last was a pending one
    waitMs,         \* the last delay, 0 before any
    vpc             \* "polling" | "returned" | "threw-http" | "threw-status"
                    \* | "threw-audio" | "threw-timeout" | "off"

segVars == <<sampleRate, totalSamples, rmsValues, block, currentKind,
             currentStart, silenceBlocks, segments, apc>>

planVars == <<planSegments, clips, placements, talkPlans, videoCursor,
              previousKind, counters, segIndex, covered, segmentVideoStart,
              coverLog, ppc, outputLength, writes>>

wavVars == <<channelData, view, wavOffset, wavIndex, wavChannel, wpc>>

mergeVars == <<mergeInput, mergeOnce, mergeTwice, mpc>>

pollVars == <<attempt, requests, lastResponse, earlierPending, waitMs, vpc>>

vars == <<segVars, planVars, wavVars, mergeVars, pollVars>>

\* what the actions of one function leave alone
outsideSeg == <<planVars, wavVars, mergeVars, pollVars>>
outsidePlan == <<segVars, wavVars, mergeVars, pollVars>>
outsideWav == <<rmsValues, block, currentKind, currentStart, silenceBlocks,
                segments, apc, planVars, mergeVars, pollVars>>
outsideMerge == <<segVars, planVars, wavVars, pollVars>>
outsidePoll == <<segVars, planVars, wavVars, mergeVars>>

Max(a, b) == IF a >= b THEN a ELSE b
Min(a, b) == IF a <= b THEN a ELSE b

\* Math.ceil(a / b) for a >= 0, b > 0
CeilDiv(a, b) == (a + b - 1) \div b

(***************************************************************************)
(* Bounds and input sets                                                   *)
(***************************************************************************)
\* largest number of whole windows in an input buffer
MaxBlocks == 6

\* sample rates an AudioContext decodes to
SampleRates == {8000, 44100}

\* loudness values (thousandths) a window can have
Levels == {0, 30, 100}

(***************************************************************************)
(* analyzeAudio: constants (audio.ts 3-6), scaled to integers              *)
(***************************************************************************)
\* WINDOW_SIZE_SEC = 0.08, in hundredths of a second
WINDOW_SIZE_CS == 8
SILENCE_HOLD_BLOCKS == 3
\* MIN_SEGMENT_DURATION_SEC = 0.05 = 1 / 20
MIN_SEGMENT_DURATION_INV == 20
\* TALK_GAP_TOLERANCE_SEC + 1e-6 = 0.050001, in millionths of a second
TALK_GAP_TOLERANCE_US == 50001

\* (mutation of blockSizeOf: Math.round in place of Math.floor)
blockSizeOf_round(sr) == Max(1, (sr * WINDOW_SIZE_CS + 50) \div 100)

\* blockSize = Math.max(1, Math.floor(sampleRate * WINDOW_SIZE_SEC))
blockSizeOf(sr) == Max(1, (sr * WINDOW_SIZE_CS) \div 100)

\* blockCount = Math.ceil(totalSamples / blockSize)
blockCountOf(sr, total) == CeilDiv(total, blockSizeOf(sr))

\* the k-th (0-based) element of [...values].sort((a, b) => a - b)
SortedAt(values, k) ==
    CHOOSE v \in {values[j] : j \in 1..Len(values)} :
        /\ Cardinality({j \in 1..Len(values) : values[j] < v}) <= k
        /\ Cardinality({j \in 1..Len(values) : values[j] <= v}) > k

\* strongLevel = sorted[Math.max(0, Math.floor(sorted.length * 0.9) - 1)] ?? 0
strongLevel(values) ==
    IF Len(values) = 0 THEN 0
    ELSE SortedAt(values, Max(0, ((Len(values) * 9) \div 10) - 1))

\* talkThreshold = Math.max(0.02, strongLevel * 0.4), here times 10
\* (thousandths times 10: 0.02 is 200, strongLevel * 0.4 is 4 * strongLevel)
talkThreshold10(values) == Max(200, 4 * strongLevel(values))

\* value >= talkThreshold
AtLeastTalk(value, values) == 10 * value >= talkThreshold10(values)

\* value < silenceThreshold, silenceThreshold = talkThreshold * 0.55
BelowSilence(value, values) == 1000 * value < 55 * talkThreshold10(values)

\* id: `${kind}-${index}`
SegId(kind, index) == <<kind, index>>

\* flushSegment(endTime): the segments after the call (currentStart becomes
\* endTime on both paths)
flushSegment(segs, kind, start, endTime, sr) ==
    LET duration == endTime - start
    IN  IF duration * MIN_SEGMENT_DURATION_INV <= sr
        THEN segs
        ELSE Append(segs, [id |-> SegId(kind, Len(segs)), kind |-> kind,
                           start |-> start, duration |-> duration])

\* (mutation of withLeadingIdle: the inserted segment always spans the buffer)
withLeadingIdle_spanAll(segs, total) ==
    IF Len(segs) = 0 \/ segs[1].kind # "idle"
    THEN <<[id |-> SegId("idle", 0), kind |-> "idle", start |-> 0,
            duration |-> total]>> \o segs
    ELSE segs

\* (mutation of withLeadingIdle: nothing is inserted into an empty list)
withLeadingIdle_nonEmptyOnly(segs, total) ==
    IF Len(segs) > 0 /\ segs[1].kind # "idle"
    THEN <<[id |-> SegId("idle", 0), kind |-> "idle", start |-> 0,
            duration |-> segs[1].start]>> \o segs
    ELSE segs

\* segments.unshift({id: 'idle-0', kind: 'idle', start: 0, duration: ...})
\* when the list is empty or does not begin with an idle segment
withLeadingIdle(segs, total) ==
    IF Len(segs) = 0 \/ segs[1].kind # "idle"
    THEN <<[id |-> SegId("idle", 0), kind |-> "idle", start |-> 0,
            duration |-> IF Len(segs) > 0 THEN segs[1].start ELSE total]>>
         \o segs
    ELSE segs

\* gap <= gapTolerance + 1e-6, gap in samples
\* (0.050001 * sr, rounded down, computed without leaving 32 bits)
withinTolerance(gap, sr) ==
    gap <= ((TALK_GAP_TOLERANCE_US \div 1000) * sr
            + ((TALK_GAP_TOLERANCE_US % 1000) * sr) \div 1000) \div 1000

\* (mutation of mergeFrom: after a merge the next segment is appended
\* without being compared)
RECURSIVE mergeFrom_skipNext(_, _, _, _)
mergeFrom_skipNext(merged, segs, k, sr) ==
    IF k > Len(segs) THEN merged
    ELSE LET segment == segs[k]
         IN IF Len(merged) = 0
            THEN mergeFrom_skipNext(<<segment>>, segs, k + 1, sr)
            ELSE LET prev == merged[Len(merged)]
                     prevEnd == prev.start + prev.duration
                     gap == segment.start - prevEnd
                 IN IF segment.kind = "talk" /\ prev.kind = "talk"
                       /\ withinTolerance(gap, sr)
                    THEN LET newEnd == segment.start + segment.duration
                             grown == [merged EXCEPT
                                         ![Len(merged)].duration = newEnd - prev.start]
                         IN IF k + 1 > Len(segs) THEN grown
                            ELSE mergeFrom_skipNext(Append(grown, segs[k + 1]),
                                                    segs, k + 2, sr)
                    ELSE mergeFrom_skipNext(Append(merged, segment), segs, k + 1, sr)

RECURSIVE mergeFrom(_, _, _, _)
mergeFrom(merged, segs, k, sr) ==
    IF k > Len(segs) THEN merged
    ELSE LET segment == segs[k]
         IN IF Len(merged) = 0
            THEN mergeFrom(<<segment>>, segs, k + 1, sr)
            ELSE LET prev == merged[Len(merged)]
                     prevEnd == prev.start + prev.duration
                     gap == segment.start - prevEnd
                 IN IF segment.kind = "talk" /\ prev.kind = "talk"
                       /\ withinTolerance(gap, sr)
                    THEN LET newEnd == segment.start + segment.duration
                         IN mergeFrom(
                              [merged EXCEPT ![Len(merged)].duration = newEnd - prev.start],
                              segs, k + 1, sr)
                    ELSE mergeFrom(Append(merged, segment), segs, k + 1, sr)

\* (mutation of mergeAdjacentTalkSegments: nothing is merged)
mergeAdjacentTalkSegments_none(segs, sr) == segs

mergeAdjacentTalkSegments(segs, sr) == mergeFrom(<<>>, segs, 1, sr)

rebuildSegmentIds(segs) ==
    [k \in 1..Len(segs) |-> [segs[k] EXCEPT !.id = SegId(segs[k].kind, k - 1)]]

(***************************************************************************)
(* analyzeAudio as a state machine                                         *)
(***************************************************************************)
\* buffer lengths: whole windows plus a final partial window of 0 samples,
\* 1 sample, exactly 0.05 s or just over 0.05 s
TailSamples(sr) == {0, 1, sr \div MIN_SEGMENT_DURATION_INV,
                    (sr \div MIN_SEGMENT_DURATION_INV) + 1}

BufferLengths(sr) ==
    {full * blockSizeOf(sr) + tail :
        full \in 0..MaxBlocks, tail \in TailSamples(sr)}

SeqsOfLen(S, n) == [1..n -> S]

\* the scheduler and the realigner are not running
PlanOff ==
    /\ planSegments = <<>>
    /\ clips = <<>>
    /\ placements = <<>>
    /\ talkPlans = <<>>
    /\ videoCursor = 0
    /\ previousKind = "idle"
    /\ counters = [t \in {} |-> 0]
    /\ segIndex = 0
    /\ covered = 0
    /\ segmentVideoStart = 0
    /\ coverLog = <<>>
    /\ ppc = "off"
    /\ outputLength = 0
    /\ writes = <<>>

NoResponse == [ok |-> FALSE, success |-> FALSE, isAudioError |-> FALSE,
               isAudioReady |-> FALSE, retryAfter |-> <<>>]

\* the merge is not applied on its own and nothing is polled
OthersOff ==
    /\ mergeInput = <<>>
    /\ mergeOnce = <<>>
    /\ mergeTwice = <<>>
    /\ mpc = "off"
    /\ attempt = 0
    /\ requests = 0
    /\ lastResponse = NoResponse
    /\ earlierPending = TRUE
    /\ waitMs = 0
    /\ vpc = "off"

\* the encoder is not running
WavOff ==
    /\ OthersOff
    /\ channelData = <<>>
    /\ view = <<>>
    /\ wavOffset = 0
    /\ wavIndex = 0
    /\ wavChannel = 0
    /\ wpc = "off"

InitSeg ==
    /\ sampleRate \in SampleRates
    /\ totalSamples \in BufferLengths(sampleRate)
    /\ rmsValues \in SeqsOfLen(Levels, blockCountOf(sampleRate, totalSamples))
    /\ block = 0
    /\ currentKind = "idle"
    /\ currentStart = 0
    /\ silenceBlocks = 0
    /\ segments = <<>>
    /\ apc = "scan"
    /\ PlanOff
    /\ WavOff

\* (mutation of ScanBlock: a loud window in talk leaves the silence run as
\* it is)
ScanBlock_noReset ==
    /\ apc = "scan"
    /\ block < blockCountOf(sampleRate, totalSamples)
    /\ LET value == rmsValues[block + 1]
           windowDuration == blockSizeOf(sampleRate)
           blockEnd == Min(totalSamples, (block + 1) * windowDuration)
       IN IF currentKind = "idle"
          THEN IF AtLeastTalk(value, rmsValues)
               THEN /\ segments' = flushSegment(segments, currentKind, currentStart,
                                                block * windowDuration, sampleRate)
                    /\ currentStart' = block * windowDuration
                    /\ currentKind' = "talk"
                    /\ silenceBlocks' = 0
               ELSE UNCHANGED <<segments, currentStart, currentKind, silenceBlocks>>
          ELSE IF BelowSilence(value, rmsValues)
               THEN IF silenceBlocks + 1 >= SILENCE_HOLD_BLOCKS
                    THEN /\ segments' = flushSegment(segments, currentKind, currentStart,
                                                     blockEnd, sampleRate)
                         /\ currentStart' = blockEnd
                         /\ currentKind' = "idle"
                         /\ silenceBlocks' = 0
                    ELSE /\ silenceBlocks' = silenceBlocks + 1
                         /\ UNCHANGED <<segments, currentStart, currentKind>>
               ELSE UNCHANGED <<segments, currentStart, currentKind, silenceBlocks>>
    /\ block' = block + 1
    /\ UNCHANGED <<sampleRate, totalSamples, rmsValues, apc>>
    /\ UNCHANGED outsideSeg

\* one iteration of the window loop (audio.ts 81-103)
ScanBlock ==
    /\ apc = "scan"
    /\ block < blockCountOf(sampleRate, totalSamples)
    /\ LET value == rmsValues[block + 1]
           windowDuration == blockSizeOf(sampleRate)
           blockEnd == Min(totalSamples, (block + 1) * windowDuration)
       IN IF currentKind = "idle"
          THEN IF AtLeastTalk(value, rmsValues)
               THEN /\ segments' = flushSegment(segments, currentKind, currentStart,
                                                block * windowDuration, sampleRate)
                    /\ currentStart' = block * windowDuration
                    /\ currentKind' = "talk"
                    /\ silenceBlocks' = 0
               ELSE UNCHANGED <<segments, currentStart, currentKind, silenceBlocks>>
          ELSE IF BelowSilence(value, rmsValues)
               THEN IF silenceBlocks + 1 >= SILENCE_HOLD_BLOCKS
                    THEN /\ segments' = flushSegment(segments, currentKind, currentStart,
                                                     blockEnd, sampleRate)
                         /\ currentStart' = blockEnd
                         /\ currentKind' = "idle"
                         /\ silenceBlocks' = 0
                    ELSE /\ silenceBlocks' = silenceBlocks + 1
                         /\ UNCHANGED <<segments, currentStart, currentKind>>
               ELSE /\ silenceBlocks' = 0
                    /\ UNCHANGED <<segments, currentStart, currentKind>>
    /\ block' = block + 1
    /\ UNCHANGED <<sampleRate, totalSamples, rmsValues, apc>>
    /\ UNCHANGED outsideSeg

\* after the loop (audio.ts 105-116): the final flush, the leading idle,
\* the merge and the id rebuild
FinishAnalyze ==
    /\ apc = "scan"
    /\ block = blockCountOf(sampleRate, totalSamples)
    /\ segments' = rebuildSegmentIds(mergeAdjacentTalkSegments(
                       withLeadingIdle(
                           flushSegment(segments, currentKind, currentStart,
                                        totalSamples, sampleRate),
                           totalSamples),
                       sampleRate))
    /\ currentStart' = totalSamples
    /\ apc' = "done"
    /\ UNCHANGED <<sampleRate, totalSamples, rmsValues, block, currentKind,
                   silenceBlocks>>
    /\ UNCHANGED outsideSeg

NextSeg == ScanBlock \/ FinishAnalyze

SpecSeg == InitSeg /\ [][NextSeg]_vars

(***************************************************************************)
(* Claims about analyzeAudio                                               *)
(***************************************************************************)
SegEnd(k) == segments[k].start + segments[k].duration

\* C1: the segment list analyzeAudio returns is contiguous and ordered: the
\* first segment starts at 0 and every later segment starts where the
\* previous one ends.
C1_Contiguous ==
    apc = "done" =>
        /\ Len(segments) >= 1
        /\ segments[1].start = 0
        /\ \A k \in 1..(Len(segments) - 1) : segments[k + 1].start = SegEnd(k)

\* segment k is a talk segment made by merging two runs: inside it lie
\* SILENCE_HOLD_BLOCKS windows below the silence threshold (which close the
\* first run) followed by a window at or above the talk threshold
MergedTalk(k) ==
    /\ segments[k].kind = "talk"
    /\ \E b \in 2..(Len(rmsValues) - SILENCE_HOLD_BLOCKS) :
          /\ (b - 1) * blockSizeOf(sampleRate) > segments[k].start
          /\ (b + SILENCE_HOLD_BLOCKS - 1) * blockSizeOf(sampleRate) < SegEnd(k)
          /\ \A j \in b..(b + SILENCE_HOLD_BLOCKS - 1) :
                BelowSilence(rmsValues[j], rmsValues)
          /\ AtLeastTalk(rmsValues[b + SILENCE_HOLD_BLOCKS], rmsValues)

\* a returned list whose leading idle was inserted (the scan began in talk)
\* and whose talk segment was made by a merge
C1_Witness ==
    /\ apc = "done"
    /\ Len(segments) >= 2
    /\ segments[1].duration = 0
    /\ MergedTalk(2)

\* C2: the returned segments cover the whole buffer: the last segment ends
\* at the buffer's duration.
C2_CoversDuration ==
    apc = "done" =>
        /\ Len(segments) >= 1
        /\ SegEnd(Len(segments)) = totalSamples

\* C3: the returned list begins with an idle segment and no two consecutive
\* segments have the same kind.
C3_Alternates ==
    apc = "done" =>
        /\ Len(segments) >= 1
        /\ segments[1].kind = "idle"
        /\ \A k \in 1..(Len(segments) - 1) : segments[k + 1].kind # segments[k].kind

\* a returned list that begins with an idle run of the scan, followed by a
\* talk segment made by a merge (the zero-length idle run between the two
\* talk runs was discarded by flushSegment)
C3_Witness ==
    /\ apc = "done"
    /\ Len(segments) >= 2
    /\ segments[1].duration > 0
    /\ MergedTalk(2)

\* C14: on a zero-length buffer (no window, duration 0) analyzeAudio returns
\* exactly one segment: idle-0, kind idle, start 0, duration 0.
C14_ZeroLength ==
    (apc = "done" /\ totalSamples = 0) =>
        segments = << [id |-> SegId("idle", 0), kind |-> "idle",
                       start |-> 0, duration |-> 0] >>

\* analyzeAudio has returned for a zero-length buffer, having scanned no
\* window
C14_Witness ==
    /\ apc = "done"
    /\ totalSamples = 0
    /\ Len(rmsValues) = 0
    /\ block = 0

\* the number of consecutive windows below the silence threshold that end
\* with window b, counted back no further than the window after window e
\* (windows numbered from 0)
RECURSIVE SilentRun(_, _)
SilentRun(b, e) ==
    IF b <= e \/ ~BelowSilence(rmsValues[b + 1], rmsValues)
    THEN 0
    ELSE 1 + SilentRun(b - 1, e)

\* C16: a step of the window scan leaves talk only at the third consecutive
\* window below the silence threshold since talk was entered or since the
\* last window at or above it, and then closes the talk segment at that
\* window's end; a window at or above the silence threshold met in talk sets
\* the silence run to 0 and closes nothing; a step leaves idle exactly at a
\* window at or above the talk threshold, closing the idle segment at that
\* window's start.
C16_Hysteresis ==
    [][block' = block + 1 =>
        LET value == rmsValues[block + 1]
            size == blockSizeOf(sampleRate)
            entered == currentStart \div size
            run == SilentRun(block, entered)
            blockEnd == Min(totalSamples, (block + 1) * size)
        IN  /\ currentKind = "talk" =>
                /\ currentKind' = "idle" <=> run = SILENCE_HOLD_BLOCKS
                /\ currentKind' = "idle" =>
                      /\ currentStart' = blockEnd
                      /\ Len(segments') = Len(segments) + 1
                      /\ segments'[Len(segments')].kind = "talk"
                      /\ segments'[Len(segments')].start = currentStart
                      /\ segments'[Len(segments')].duration = blockEnd - currentStart
                /\ currentKind' = "talk" =>
                      /\ silenceBlocks' = run
                      /\ segments' = segments
                      /\ currentStart' = currentStart
                /\ ~BelowSilence(value, rmsValues) =>
                      silenceBlocks' = 0 /\ currentKind' = "talk"
            /\ currentKind = "idle" =>
                /\ currentKind' = "talk" <=> AtLeastTalk(value, rmsValues)
                /\ currentKind' = "talk" =>
                      /\ currentStart' = block * size
                      /\ silenceBlocks' = 0
                      /\ segments' \in {segments,
                                        Append(segments,
                                               [id |-> SegId("idle", Len(segments)),
                                                kind |-> "idle",
                                                start |-> currentStart,
                                                duration |-> block * size - currentStart])}
                      /\ (block * size - currentStart) * MIN_SEGMENT_DURATION_INV
                            > sampleRate
                         => Len(segments') = Len(segments) + 1
                /\ currentKind' = "idle" =>
                      UNCHANGED <<segments, currentStart, silenceBlocks>>
    ]_vars

\* the scan has just left talk at the third silent window of a run that
\* began after a loud window had reset an earlier run: talk entered, one
\* silent window, one window at or above the silence threshold, three silent
\* windows
C16_Witness ==
    /\ apc = "scan"
    /\ block >= 6
    /\ currentKind = "idle"
    /\ silenceBlocks = 0
    /\ currentStart = Min(totalSamples, block * blockSizeOf(sampleRate))
    /\ Len(segments) >= 1
    /\ segments[Len(segments)].kind = "talk"
    /\ SegEnd(Len(segments)) = currentStart
    /\ \A j \in (block - 2)..block : BelowSilence(rmsValues[j], rmsValues)
    /\ ~BelowSilence(rmsValues[block - 3], rmsValues)
    /\ BelowSilence(rmsValues[block - 4], rmsValues)
    /\ AtLeastTalk(rmsValues[block - 5], rmsValues)

(***************************************************************************)
(* buildTimelinePlan (src/unnamed/part_000), times in milliseconds         *)
(***************************************************************************)
\* largest number of segments in a scheduler input
MaxSegments == 3

\* the placements array is followed up to this length
MaxPlacements == 24

MotionTypes == {"idle", "idleToSpeech", "speechLoop", "speechToIdle"}

\* 1e-2 seconds, the tolerance of coverSegment
COVER_EPSILON_MS == 10

\* groupClips: the clips of each type, in input order
groupClips(cl) ==
    [t \in MotionTypes |-> SelectSeq(cl, LAMBDA c : c.type = t)]

library == groupClips(clips)

\* (mutation of nextIndex: the incremented value is returned)
nextIndex_pre(counter, type) ==
    [value |-> counter[type] + 1, counter |-> [counter EXCEPT ![type] = @ + 1]]

\* (mutation of requiredPoolMissing: only the idle pool is looked at)
requiredPoolMissing_idleOnly(lib) == Len(lib["idle"]) = 0

\* part_000 25-26: the conditions under which buildTimelinePlan throws at entry
requiredPoolMissing(lib) == Len(lib["idle"]) = 0 \/ Len(lib["speechLoop"]) = 0

\* nextIndex: the counter's value, and the counters after the increment
nextIndex(counter, type) ==
    [value |-> counter[type], counter |-> [counter EXCEPT ![type] = @ + 1]]

NoClip == [id |-> "none", type |-> "none", duration |-> 0]

\* the closure state takeClip reads and writes
schedulerState ==
    [placements |-> placements, videoCursor |-> videoCursor,
     counters |-> counters, clip |-> NoClip, thrown |-> FALSE]

\* (mutation of takeClip: the clip is placed after the cursor has advanced)
takeClip_after(st, lib, type) ==
    LET list == lib[type]
    IN  IF Len(list) = 0 THEN [st EXCEPT !.thrown = TRUE]
        ELSE LET n == nextIndex(st.counters, type)
                 clip == list[(n.value % Len(list)) + 1]
             IN [placements |-> Append(st.placements,
                                       [clip |-> clip,
                                        start |-> st.videoCursor + clip.duration]),
                 videoCursor |-> st.videoCursor + clip.duration,
                 counters |-> n.counter,
                 clip |-> clip,
                 thrown |-> FALSE]

\* takeClip(type): throws on an empty pool, else takes
\* list[nextIndex(counters, type) % list.length], places it at the cursor and
\* advances the cursor by its duration
takeClip(st, lib, type) ==
    LET list == lib[type]
    IN  IF Len(list) = 0 THEN [st EXCEPT !.thrown = TRUE]
        ELSE LET n == nextIndex(st.counters, type)
                 clip == list[(n.value % Len(list)) + 1]
             IN [placements |-> Append(st.placements,
                                       [clip |-> clip, start |-> st.videoCursor]),
                 videoCursor |-> st.videoCursor + clip.duration,
                 counters |-> n.counter,
                 clip |-> clip,
                 thrown |-> FALSE]

\* (mutation of maybeTakeClip: a transition clip is never placed)
maybeTakeClip_never(st, lib, type) == st

\* maybeTakeClip(type): nothing on an empty pool, else takeClip(type)
maybeTakeClip(st, lib, type) ==
    IF Len(lib[type]) = 0 THEN st ELSE takeClip(st, lib, type)

\* (mutation of coverMore: an if in place of the while)
coverMore_once(cov, segment) ==
    cov = 0 /\ cov + COVER_EPSILON_MS < segment.duration

\* the loop condition of coverSegment: covered + 1e-2 < segment.duration
coverMore(cov, segment) == cov + COVER_EPSILON_MS < segment.duration

\* (mutation of coverAdvance: covered is read off the video cursor)
coverAdvance_cursor(cov, st) == st.videoCursor

\* covered += clip.duration
coverAdvance(cov, st) == cov + st.clip.duration

\* (mutation of nextIsIdle: a missing next segment does not count)
nextIsIdle_presentOnly(segs, i) ==
    i + 1 < Len(segs) /\ segs[i + 2].kind = "idle"

\* part_000 85-86: !nextSegment || nextSegment.kind === 'idle', i 0-based
nextIsIdle(segs, i) ==
    IF i + 1 >= Len(segs) THEN TRUE ELSE segs[i + 2].kind = "idle"

\* (mutation of talkPlanFor: audioStart is taken from the video timeline)
talkPlanFor_videoStart(segment, from, to) ==
    [segmentId |-> segment.id, videoStart |-> from, videoEnd |-> to,
     audioStart |-> from, audioDuration |-> segment.duration]

\* part_000 77-83: the Talk Plan pushed for a talk segment
talkPlanFor(segment, from, to) ==
    [segmentId |-> segment.id, videoStart |-> from, videoEnd |-> to,
     audioStart |-> segment.start, audioDuration |-> segment.duration]

\* the pool coverSegment draws from
coverType(segment) == IF segment.kind = "idle" THEN "idle" ELSE "speechLoop"

(***************************************************************************)
(* buildAlignedAudioBuffer (audio.ts 128-158)                              *)
(***************************************************************************)
\* Math.floor(t * sampleRate), t in milliseconds
FloorSamples(t, sr) == (t * sr) \div 1000

\* Math.ceil(t * sampleRate), t in milliseconds
CeilSamples(t, sr) == CeilDiv(t * sr, 1000)

\* one iteration of the loop over talkPlans: the output.set call it makes,
\* with length 0 when the iteration is skipped by a continue
alignWrite(plan, sr, bufferLength, outLength) ==
    LET sourceStart == FloorSamples(plan.audioStart, sr)
        sourceSamples == FloorSamples(plan.audioDuration, sr)
        targetStart == FloorSamples(plan.videoStart, sr)
        remainingTarget == outLength - targetStart
        copyLength == Min(Min(sourceSamples, remainingTarget),
                          bufferLength - sourceStart)
    IN  [plan |-> plan.segmentId, target |-> targetStart, source |-> sourceStart,
         length |-> IF remainingTarget <= 0 \/ sourceSamples <= 0 THEN 0
                    ELSE IF copyLength <= 0 THEN 0 ELSE copyLength]

(***************************************************************************)
(* The scheduler and the realigner as a state machine                      *)
(***************************************************************************)
\* the clips a clip list is drawn from: a clip list is a subsequence of it
ClipCatalogue ==
    << [id |-> "idle-a", type |-> "idle", duration |-> 1000],
       [id |-> "speech-a", type |-> "speechLoop", duration |-> 400],
       [id |-> "in-a", type |-> "idleToSpeech", duration |-> 200],
       [id |-> "out-a", type |-> "speechToIdle", duration |-> 200],
       [id |-> "idle-b", type |-> "idle", duration |-> 400],
       [id |-> "speech-b", type |-> "speechLoop", duration |-> 1000] >>

\* the subsequence of s at the positions in keep
RECURSIVE Pick(_, _, _)
Pick(s, keep, k) ==
    IF k > Len(s) THEN <<>>
    ELSE (IF k \in keep THEN <<s[k]>> ELSE <<>>) \o Pick(s, keep, k + 1)

ClipLists == {Pick(ClipCatalogue, keep, 1) : keep \in SUBSET (1..Len(ClipCatalogue))}

\* sample rate of the audio buffer the plan is made for
PlanSampleRates == {44100}

\* kind and duration of the segments of an input
SegmentShapes ==
    { <<"idle", 0>>, <<"idle", 1000>>, <<"idle", 2000>>,
      <<"talk", 1000>>, <<"talk", 1010>> }

\* segments of the given shapes, laid end to end from 0
RECURSIVE layOut(_, _, _)
layOut(shapes, k, at) ==
    IF k > Len(shapes) THEN <<>>
    ELSE << [id |-> SegId(shapes[k][1], k - 1), kind |-> shapes[k][1],
             start |-> at, duration |-> shapes[k][2]] >>
         \o layOut(shapes, k + 1, at + shapes[k][2])

SegmentLists ==
    UNION { {layOut(sh, 1, 0) : sh \in SeqsOfLen(SegmentShapes, n)} : n \in 0..MaxSegments }

SegOff ==
    /\ rmsValues = <<>>
    /\ block = 0
    /\ currentKind = "idle"
    /\ currentStart = 0
    /\ silenceBlocks = 0
    /\ segments = <<>>
    /\ apc = "off"

\* the end of the last segment: the duration of the audio the segments are of
audioEnd(segs) ==
    IF Len(segs) = 0 THEN 0 ELSE segs[Len(segs)].start + segs[Len(segs)].duration

InitPlan ==
    /\ SegOff
    /\ WavOff
    /\ sampleRate \in PlanSampleRates
    /\ planSegments \in SegmentLists
    /\ totalSamples = FloorSamples(audioEnd(planSegments), sampleRate)
    /\ clips \in ClipLists
    /\ placements = <<>>
    /\ talkPlans = <<>>
    /\ videoCursor = 0
    /\ previousKind = "idle"
    /\ counters = [t \in MotionTypes |-> 0]
    /\ segIndex = 0
    /\ covered = 0
    /\ segmentVideoStart = 0
    /\ coverLog = <<>>
    /\ ppc = "entry"
    /\ outputLength = 0
    /\ writes = <<>>

currentSegment == planSegments[segIndex + 1]

\* part_000 24-38: the two required pools, then the locals
EnterPlan ==
    /\ ppc = "entry"
    /\ ppc' = IF requiredPoolMissing(library) THEN "error" ELSE "segment"
    /\ UNCHANGED <<planSegments, clips, placements, talkPlans, videoCursor,
                   previousKind, counters, segIndex, covered, segmentVideoStart,
                   coverLog, outputLength, writes>>
    /\ UNCHANGED outsidePlan

\* part_000 62-76: the head of one iteration of the segment loop, up to the
\* call of coverSegment
BeginSegment ==
    /\ ppc = "segment"
    /\ segIndex < Len(planSegments)
    /\ LET st == IF currentSegment.kind = "talk" /\ previousKind = "idle"
                 THEN maybeTakeClip(schedulerState, library, "idleToSpeech")
                 ELSE schedulerState
       IN /\ placements' = st.placements
          /\ videoCursor' = st.videoCursor
          /\ counters' = st.counters
          /\ segmentVideoStart' = IF currentSegment.kind = "talk"
                                  THEN st.videoCursor ELSE segmentVideoStart
    /\ covered' = 0
    /\ coverLog' = Append(coverLog, [segment |-> segIndex, clips |-> <<>>])
    /\ ppc' = "cover"
    /\ UNCHANGED <<planSegments, clips, talkPlans, previousKind, segIndex,
                   outputLength, writes>>
    /\ UNCHANGED outsidePlan

\* part_000 56-59: one iteration of coverSegment's loop
CoverStep ==
    /\ ppc = "cover"
    /\ coverMore(covered, currentSegment)
    /\ Len(placements) < MaxPlacements
    /\ LET st == takeClip(schedulerState, library, coverType(currentSegment))
       IN IF st.thrown
          THEN /\ ppc' = "error"
               /\ UNCHANGED <<placements, videoCursor, counters, covered, coverLog>>
          ELSE /\ placements' = st.placements
               /\ videoCursor' = st.videoCursor
               /\ counters' = st.counters
               /\ covered' = coverAdvance(covered, st)
               /\ coverLog' = [coverLog EXCEPT ![Len(coverLog)].clips =
                                                  Append(@, st.clip)]
               /\ ppc' = "cover"
    /\ UNCHANGED <<planSegments, clips, talkPlans, previousKind, segIndex,
                   segmentVideoStart, outputLength, writes>>
    /\ UNCHANGED outsidePlan

\* part_000 67-68 and 77-91: the rest of the iteration after coverSegment
\* returned
EndSegment ==
    /\ ppc = "cover"
    /\ ~coverMore(covered, currentSegment)
    /\ IF currentSegment.kind = "idle"
       THEN /\ previousKind' = "idle"
            /\ UNCHANGED <<placements, videoCursor, counters, talkPlans>>
       ELSE LET nextIdle == nextIsIdle(planSegments, segIndex)
                st == IF nextIdle
                      THEN maybeTakeClip(schedulerState, library, "speechToIdle")
                      ELSE schedulerState
            IN /\ talkPlans' = Append(talkPlans,
                                 talkPlanFor(currentSegment, segmentVideoStart,
                                             videoCursor))
               /\ placements' = st.placements
               /\ videoCursor' = st.videoCursor
               /\ counters' = st.counters
               /\ previousKind' = IF nextIdle THEN "idle" ELSE "talk"
    /\ segIndex' = segIndex + 1
    /\ ppc' = "segment"
    /\ UNCHANGED <<planSegments, clips, covered, segmentVideoStart, coverLog,
                   outputLength, writes>>
    /\ UNCHANGED outsidePlan

\* part_000 94-98: the plan is returned, totalDuration is videoCursor
ReturnPlan ==
    /\ ppc = "segment"
    /\ segIndex = Len(planSegments)
    /\ ppc' = "returned"
    /\ UNCHANGED <<planSegments, clips, placements, talkPlans, videoCursor,
                   previousKind, counters, segIndex, covered, segmentVideoStart,
                   coverLog, outputLength, writes>>
    /\ UNCHANGED outsidePlan

\* buildAlignedAudioBuffer(audioBuffer, plan.talkPlans, plan.totalDuration)
AlignAudio ==
    /\ ppc = "returned"
    /\ outputLength' = CeilSamples(videoCursor, sampleRate)
    /\ writes' = [k \in 1..Len(talkPlans) |->
                    alignWrite(talkPlans[k], sampleRate, totalSamples,
                               CeilSamples(videoCursor, sampleRate))]
    /\ ppc' = "aligned"
    /\ UNCHANGED <<planSegments, clips, placements, talkPlans, videoCursor,
                   previousKind, counters, segIndex, covered, segmentVideoStart,
                   coverLog>>
    /\ UNCHANGED outsidePlan

NextPlan ==
    \/ EnterPlan
    \/ BeginSegment
    \/ CoverStep
    \/ EndSegment
    \/ ReturnPlan
    \/ AlignAudio

SpecPlan == InitPlan /\ [][NextPlan]_vars

(***************************************************************************)
(* Claims about buildTimelinePlan and buildAlignedAudioBuffer              *)
(***************************************************************************)
RECURSIVE SumDurations(_)
SumDurations(cl) ==
    IF Len(cl) = 0 THEN 0 ELSE cl[1].duration + SumDurations(Tail(cl))

\* C4 as stated: in every Talk Plan, videoEnd - videoStart >= audioDuration.
C4_NeverUndershoots ==
    \A k \in 1..Len(talkPlans) :
        talkPlans[k].videoEnd - talkPlans[k].videoStart >= talkPlans[k].audioDuration

\* C4 as amended: in every Talk Plan, videoEnd - videoStart is at least
\* audioDuration - 0.01 s.
C4_UndershootsByEpsilonAtMost ==
    \A k \in 1..Len(talkPlans) :
        talkPlans[k].videoEnd - talkPlans[k].videoStart
            >= talkPlans[k].audioDuration - COVER_EPSILON_MS

\* a returned plan with a Talk Plan whose clips stop short of the audio
\* duration by exactly 0.01 s
C4_Witness ==
    /\ ppc = "returned"
    /\ \E k \in 1..Len(talkPlans) :
         /\ talkPlans[k].videoEnd > talkPlans[k].videoStart
         /\ talkPlans[k].videoEnd - talkPlans[k].videoStart
              = talkPlans[k].audioDuration - COVER_EPSILON_MS

\* the entries of coverLog whose coverSegment call has returned
Covered == {k \in 1..Len(coverLog) : k < Len(coverLog) \/ ppc # "cover"}

\* C5: for every segment coverSegment has covered, idle or talk, the
\* durations of the clips placed for it sum to at least
\* segment.duration - 0.01 s.
C5_CoverageLowerBound ==
    \A k \in Covered :
        SumDurations(coverLog[k].clips)
            >= planSegments[coverLog[k].segment + 1].duration - COVER_EPSILON_MS

\* a returned plan with a talk segment whose clips stop short of its
\* duration by exactly 0.01 s and an idle segment covered by two or more clips
C5_Witness ==
    /\ ppc = "returned"
    /\ \E k \in Covered :
         /\ planSegments[coverLog[k].segment + 1].kind = "talk"
         /\ Len(coverLog[k].clips) >= 1
         /\ SumDurations(coverLog[k].clips)
              = planSegments[coverLog[k].segment + 1].duration - COVER_EPSILON_MS
    /\ \E k \in Covered :
         /\ planSegments[coverLog[k].segment + 1].kind = "idle"
         /\ Len(coverLog[k].clips) >= 2

\* the samples [target, target + length) written for two plans share a sample
WritesOverlap(a, b) ==
    /\ a.length > 0
    /\ b.length > 0
    /\ a.target < b.target + b.length
    /\ b.target < a.target + a.length

\* C6: the destination sample ranges buildAlignedAudioBuffer writes for two
\* distinct Talk Plans of one Timeline Plan do not overlap.
C6_DisjointDestinations ==
    ppc = "aligned" =>
        \A a, b \in 1..Len(writes) : a # b => ~WritesOverlap(writes[a], writes[b])

\* the output samples whose time lies in placement p's stretch of the
\* video timeline: [from, to)
StretchOf(p) ==
    [from |-> CeilSamples(p.start, sampleRate),
     to |-> Min(outputLength, CeilSamples(p.start + p.clip.duration, sampleRate))]

\* C7: no sample in the stretch of an idle, idleToSpeech or speechToIdle
\* placement is written by buildAlignedAudioBuffer (it stays silent).
C7_SilentOutsideTalk ==
    ppc = "aligned" =>
        \A k \in 1..Len(placements) :
            placements[k].clip.type # "speechLoop" =>
                \A w \in 1..Len(writes) :
                    \/ writes[w].length = 0
                    \/ writes[w].target + writes[w].length <= StretchOf(placements[k]).from
                    \/ StretchOf(placements[k]).to <= writes[w].target

\* the placements of clips of type t, in order
TakenOf(t) == SelectSeq(placements, LAMBDA p : p.clip.type = t)

\* C8: for each motion type, the i-th clip taken from its pool (i from 0) is
\* pool[i mod k], and the type's counter is the number of takes of that
\* type so far.
C8_RoundRobin ==
    ppc \notin {"off", "entry", "error"} =>
        \A t \in MotionTypes :
            /\ counters[t] = Len(TakenOf(t))
            /\ \A n \in 1..Len(TakenOf(t)) :
                 TakenOf(t)[n].clip = library[t][((n - 1) % Len(library[t])) + 1]

\* a returned plan in which the two-clip idle and speechLoop pools were each
\* taken from three times or more, across more than one segment, and a
\* transition was skipped for an empty pool
C8_Witness ==
    /\ ppc = "returned"
    /\ Len(library["idle"]) = 2
    /\ Len(library["speechLoop"]) = 2
    /\ Len(TakenOf("idle")) >= 3
    /\ Len(TakenOf("speechLoop")) >= 3
    /\ Len(library["idleToSpeech"]) = 0
    /\ Len(TakenOf("speechToIdle")) >= 1
    /\ Cardinality({k \in Covered : Len(coverLog[k].clips) >= 1}) >= 3

\* the input of C9
C9_Input ==
    /\ planSegments = layOut(<< <<"idle", 2000>>, <<"talk", 1000>>, <<"idle", 1000>> >>, 1, 0)
    /\ library["idle"] = << [id |-> "idle-a", type |-> "idle", duration |-> 1000] >>
    /\ library["speechLoop"] =
         << [id |-> "speech-a", type |-> "speechLoop", duration |-> 400] >>
    /\ library["idleToSpeech"] =
         << [id |-> "in-a", type |-> "idleToSpeech", duration |-> 200] >>
    /\ library["speechToIdle"] =
         << [id |-> "out-a", type |-> "speechToIdle", duration |-> 200] >>

\* C9: on that input buildTimelinePlan returns the placements idle@0,
\* idle@1.0, idleToSpeech@2.0, speechLoop@2.2, speechLoop@2.6, speechLoop@3.0,
\* speechToIdle@3.4, idle@3.6, the one Talk Plan {videoStart 2.2, videoEnd 3.4,
\* audioStart 2.0, audioDuration 1.0} and totalDuration 4.6.
C9_Scenario ==
    (C9_Input /\ ppc = "returned") =>
        /\ [k \in 1..Len(placements) |-> <<placements[k].clip.type, placements[k].start>>]
             = << <<"idle", 0>>, <<"idle", 1000>>, <<"idleToSpeech", 2000>>,
                  <<"speechLoop", 2200>>, <<"speechLoop", 2600>>,
                  <<"speechLoop", 3000>>, <<"speechToIdle", 3400>>,
                  <<"idle", 3600>> >>
        /\ Len(talkPlans) = 1
        /\ talkPlans[1].videoStart = 2200
        /\ talkPlans[1].videoEnd = 3400
        /\ talkPlans[1].audioStart = 2000
        /\ talkPlans[1].audioDuration = 1000
        /\ videoCursor = 4600

\* the plan of that input has been returned
C9_Witness == C9_Input /\ ppc = "returned"

\* C11: buildTimelinePlan fails whenever the clip list has no idle clip or no
\* speechLoop clip, whatever the segments, before any placement is made or
\* any counter or cursor advanced; with both pools present it never fails,
\* empty transition pools included.
C11_FailsBeforeScheduling ==
    ppc # "off" =>
        /\ (Len(library["idle"]) = 0 \/ Len(library["speechLoop"]) = 0) =>
               /\ ppc \in {"entry", "error"}
               /\ placements = <<>>
               /\ talkPlans = <<>>
               /\ videoCursor = 0
               /\ segIndex = 0
               /\ \A t \in MotionTypes : counters[t] = 0
        /\ (Len(library["idle"]) > 0 /\ Len(library["speechLoop"]) > 0) =>
               ppc # "error"

\* the call has failed for a clip list with idle clips and no speechLoop
\* clip, on segments none of which is a talk segment
C11_Witness ==
    /\ ppc = "error"
    /\ Len(library["idle"]) > 0
    /\ Len(library["speechLoop"]) = 0
    /\ Len(planSegments) >= 1
    /\ \A k \in 1..Len(planSegments) : planSegments[k].kind = "idle"

\* C12: the first placement starts at 0, each later placement starts where
\* the previous one ends, starts strictly increase, and totalDuration
\* (videoCursor) is the end of the last placement, 0 when there is none.
C12_PlacementsAbut ==
    ppc # "off" =>
        /\ Len(placements) >= 1 => placements[1].start = 0
        /\ \A k \in 1..(Len(placements) - 1) :
               /\ placements[k + 1].start
                    = placements[k].start + placements[k].clip.duration
               /\ placements[k + 1].start > placements[k].start
        /\ videoCursor =
               IF Len(placements) = 0 THEN 0
               ELSE placements[Len(placements)].start
                      + placements[Len(placements)].clip.duration

\* a returned plan with five placements or more, of three types or more
C12_Witness ==
    /\ ppc = "returned"
    /\ Len(placements) >= 5
    /\ Cardinality({placements[k].clip.type : k \in 1..Len(placements)}) >= 3

\* n copies of x
Repeat(x, n) == [k \in 1..n |-> x]

\* the motion types C15 allows for segment k (1-based) of a finished pass:
\* one idleToSpeech before a talk segment that is first or follows an idle
\* segment, the clips of its coverage, one speechToIdle after a talk segment
\* that is last or is followed by an idle segment; a transition with an
\* empty pool is left out
TypesAround(k) ==
    LET seg == planSegments[k]
        before == /\ seg.kind = "talk"
                  /\ (k = 1 \/ planSegments[k - 1].kind = "idle")
                  /\ Len(library["idleToSpeech"]) > 0
        after == /\ seg.kind = "talk"
                 /\ (k = Len(planSegments) \/ planSegments[k + 1].kind = "idle")
                 /\ Len(library["speechToIdle"]) > 0
    IN  (IF before THEN <<"idleToSpeech">> ELSE <<>>)
        \o Repeat(IF seg.kind = "idle" THEN "idle" ELSE "speechLoop",
                  Len(coverLog[k].clips))
        \o (IF after THEN <<"speechToIdle">> ELSE <<>>)

RECURSIVE TypesFrom(_)
TypesFrom(k) ==
    IF k > Len(planSegments) THEN <<>> ELSE TypesAround(k) \o TypesFrom(k + 1)

\* C15: in a returned plan, exactly one idleToSpeech clip stands right before
\* the coverage of a talk segment iff the segment is first or follows an idle
\* segment, exactly one speechToIdle clip right after it iff the next segment
\* is idle or absent, no transition clip stands anywhere else, and a
\* transition whose pool is empty is skipped without failing.
C15_Transitions ==
    ppc = "returned" =>
        /\ Len(coverLog) = Len(planSegments)
        /\ [k \in 1..Len(placements) |-> placements[k].clip.type] = TypesFrom(1)

\* a returned plan, with both transition pools present, of two back-to-back
\* talk segments followed by an idle segment that got clips
C15_Witness ==
    /\ ppc = "returned"
    /\ Len(library["idleToSpeech"]) > 0
    /\ Len(library["speechToIdle"]) > 0
    /\ Len(planSegments) = 3
    /\ planSegments[1].kind = "talk"
    /\ planSegments[2].kind = "talk"
    /\ planSegments[3].kind = "idle"
    /\ Len(coverLog[3].clips) >= 1

(***************************************************************************)
(* buildTimelinePlan on clip lists with zero and negative durations        *)
(***************************************************************************)
\* clips of every sign: a clip list is a subsequence of it
AnyClipCatalogue ==
    << [id |-> "idle-still", type |-> "idle", duration |-> 0],
       [id |-> "idle-a", type |-> "idle", duration |-> 1000],
       [id |-> "speech-back", type |-> "speechLoop", duration |-> -400],
       [id |-> "speech-b", type |-> "speechLoop", duration |-> 1000],
       [id |-> "out-a", type |-> "speechToIdle", duration |-> 200] >>

AnyClipLists ==
    {Pick(AnyClipCatalogue, keep, 1) : keep \in SUBSET (1..Len(AnyClipCatalogue))}

InitPlanAny ==
    /\ SegOff
    /\ WavOff
    /\ sampleRate \in PlanSampleRates
    /\ planSegments \in SegmentLists
    /\ totalSamples = FloorSamples(audioEnd(planSegments), sampleRate)
    /\ clips \in AnyClipLists
    /\ placements = <<>>
    /\ talkPlans = <<>>
    /\ videoCursor = 0
    /\ previousKind = "idle"
    /\ counters = [t \in MotionTypes |-> 0]
    /\ segIndex = 0
    /\ covered = 0
    /\ segmentVideoStart = 0
    /\ coverLog = <<>>
    /\ ppc = "entry"
    /\ outputLength = 0
    /\ writes = <<>>

SpecPlanAny == InitPlanAny /\ [][NextPlan]_vars

\* the pool coverSegment draws from for entry k of coverLog
PoolOf(k) == library[coverType(planSegments[coverLog[k].segment + 1])]

\* C17 as stated: coverSegment never returns for a segment longer than
\* 0.01 s whose pool holds some clip of zero or negative duration, clips of
\* positive duration in the same pool or not.
C17_AsStated ==
    \A k \in 1..Len(coverLog) :
        /\ planSegments[coverLog[k].segment + 1].duration > COVER_EPSILON_MS
        /\ \E j \in 1..Len(PoolOf(k)) : PoolOf(k)[j].duration <= 0
        => k \notin Covered

\* C17 as amended: for a segment longer than 0.01 s whose pool holds only
\* clips of zero or negative duration, coverSegment never returns: covered
\* never rises above 0 and the loop condition holds at every iteration.
C17_AllNonPositive ==
    \A k \in 1..Len(coverLog) :
        /\ planSegments[coverLog[k].segment + 1].duration > COVER_EPSILON_MS
        /\ \A j \in 1..Len(PoolOf(k)) : PoolOf(k)[j].duration <= 0
        => /\ k \notin Covered
           /\ k = Len(coverLog)
           /\ covered <= 0
           /\ covered = SumDurations(coverLog[k].clips)
           /\ coverMore(covered, currentSegment)

\* the loop has gone round ten times on a talk segment whose pool holds only
\* a clip of negative duration, and is still running
C17_Witness ==
    /\ ppc = "cover"
    /\ currentSegment.kind = "talk"
    /\ currentSegment.duration > COVER_EPSILON_MS
    /\ Len(library["speechLoop"]) = 1
    /\ library["speechLoop"][1].duration < 0
    /\ Len(coverLog[Len(coverLog)].clips) >= 10
    /\ coverMore(covered, currentSegment)

(***************************************************************************)
(* Termination of buildTimelinePlan                                       *)
(***************************************************************************)
\* buildTimelinePlan is straight-line synchronous code: a step that can be
\* taken is taken
SpecPlanFair == InitPlan /\ [][NextPlan]_vars /\ WF_vars(NextPlan)

\* the talk segments of the input, in segment order
TalkSegments == SelectSeq(planSegments, LAMBDA segment : segment.kind = "talk")

\* one Talk Plan per talk segment, in segment order, with the segment's id,
\* start and duration
TalkPlansMatch ==
    /\ Len(talkPlans) = Len(TalkSegments)
    /\ \A k \in 1..Len(talkPlans) :
          /\ talkPlans[k].segmentId = TalkSegments[k].id
          /\ talkPlans[k].audioStart = TalkSegments[k].start
          /\ talkPlans[k].audioDuration = TalkSegments[k].duration

\* C18: on a clip list of positive durations with non-empty idle and
\* speechLoop pools, buildTimelinePlan terminates and returns a plan with
\* exactly one Talk Plan per talk segment, in segment order, carrying the
\* segment's id, start and duration.
C18_ReturnsTalkPlans ==
    (/\ ~requiredPoolMissing(library)
     /\ \A k \in 1..Len(clips) : clips[k].duration > 0)
    => <>(ppc = "returned" /\ TalkPlansMatch)

\* a returned plan for talk, idle, talk: two Talk Plans, the second with an
\* audioStart that differs from its videoStart
C18_Witness ==
    /\ ppc = "returned"
    /\ Len(planSegments) = 3
    /\ planSegments[2].kind = "idle"
    /\ planSegments[2].duration > 0
    /\ Len(talkPlans) = 2
    /\ TalkPlansMatch
    /\ talkPlans[2].audioStart # talkPlans[2].videoStart

(***************************************************************************)
(* audioBufferToWav (audio.ts 160-210)                                     *)
(***************************************************************************)
\* largest number of sample values (frames times channels) in an input
MaxWavValues == 4

\* sample values of an input, in halves: -1.5, -1.0, 0, 0.5, 1.0
SampleHalves == {-3, -2, 0, 1, 2}

WavChannelCounts == {1, 2}

WAV_HEADER_BYTES == 44
WAV_BIT_DEPTH == 16
WAV_FORMAT_PCM == 1

\* the integer part of n / d (ToInt16 and its kin truncate toward zero)
Truncate(n, d) == IF n >= 0 THEN n \div d ELSE -((-n) \div d)

\* the bytes DataView.setUint16(offset, value, true) stores
LittleEndian16(value) == << value % 256, (value \div 256) % 256 >>

\* the bytes DataView.setUint32(offset, value, true) stores
LittleEndian32(value) ==
    << value % 256, (value \div 256) % 256, (value \div 65536) % 256,
       (value \div 16777216) % 256 >>

\* the bytes DataView.setInt16(offset, n / d, true) stores: the number is
\* truncated to an integer, taken modulo 2^16, and stored low byte first
Int16Bytes(n, d) == LittleEndian16(Truncate(n, d) % 65536)

\* view with bytes stored from offset on
Store(v, offset, bytes) ==
    [k \in 1..Len(v) |->
        IF k > offset /\ k <= offset + Len(bytes) THEN bytes[k - offset] ELSE v[k]]

\* writeString(view, offset, text), text as its character codes
RIFF == <<82, 73, 70, 70>>
WAVE == <<87, 65, 86, 69>>
FMT == <<102, 109, 116, 32>>
DATA == <<100, 97, 116, 97>>

\* Math.max(-1, Math.min(1, sample)), in halves
clampSample(h) == Max(-2, Min(2, h))

\* (mutation of scaledSample: both signs are scaled by 0x7fff)
scaledSample_symmetric(h) == clampSample(h) * 32767

\* sample < 0 ? sample * 0x8000 : sample * 0x7fff, as a numerator over 2
scaledSample(h) ==
    IF clampSample(h) < 0 THEN clampSample(h) * 32768 ELSE clampSample(h) * 32767

\* lines 161-186: the sizes and the 44-byte header
wavHeader(numChannels, sr, samples) ==
    LET blockAlign == (numChannels * WAV_BIT_DEPTH) \div 8
        byteRate == sr * blockAlign
        dataSize == samples * blockAlign
        empty == [k \in 1..(WAV_HEADER_BYTES + dataSize) |-> 0]
        h1 == Store(empty, 0, RIFF)
        h2 == Store(h1, 4, LittleEndian32(36 + dataSize))
        h3 == Store(h2, 8, WAVE)
        h4 == Store(h3, 12, FMT)
        h5 == Store(h4, 16, LittleEndian32(16))
        h6 == Store(h5, 20, LittleEndian16(WAV_FORMAT_PCM))
        h7 == Store(h6, 22, LittleEndian16(numChannels))
        h8 == Store(h7, 24, LittleEndian32(sr))
        h9 == Store(h8, 28, LittleEndian32(byteRate))
        h10 == Store(h9, 32, LittleEndian16(blockAlign))
        h11 == Store(h10, 34, LittleEndian16(WAV_BIT_DEPTH))
        h12 == Store(h11, 36, DATA)
    IN  Store(h12, 40, LittleEndian32(dataSize))

\* input buffers: one or two channels of equal length
WavInputs ==
    UNION { [1..c -> SeqsOfLen(SampleHalves, n)] :
              <<c, n>> \in {x \in WavChannelCounts \X (0..MaxWavValues) :
                              x[1] * x[2] <= MaxWavValues} }

InitWav ==
    /\ SegOff
    /\ PlanOff
    /\ sampleRate \in SampleRates
    /\ channelData \in WavInputs
    /\ totalSamples = Len(channelData[1])
    /\ view = <<>>
    /\ wavOffset = 0
    /\ wavIndex = 0
    /\ wavChannel = 0
    /\ wpc = "start"
    /\ OthersOff

\* audio.ts 161-192
WriteHeader ==
    /\ wpc = "start"
    /\ view' = wavHeader(Len(channelData), sampleRate, totalSamples)
    /\ wavOffset' = WAV_HEADER_BYTES
    /\ wavIndex' = 0
    /\ wavChannel' = 0
    /\ wpc' = "samples"
    /\ UNCHANGED <<sampleRate, totalSamples, channelData>>
    /\ UNCHANGED outsideWav

\* audio.ts 194-201: one iteration of the inner loop
WriteSample ==
    /\ wpc = "samples"
    /\ wavIndex < totalSamples
    /\ view' = Store(view, wavOffset,
                     Int16Bytes(scaledSample(channelData[wavChannel + 1][wavIndex + 1]), 2))
    /\ wavOffset' = wavOffset + 2
    /\ IF wavChannel + 1 < Len(channelData)
       THEN /\ wavChannel' = wavChannel + 1
            /\ wavIndex' = wavIndex
       ELSE /\ wavChannel' = 0
            /\ wavIndex' = wavIndex + 1
    /\ UNCHANGED <<sampleRate, totalSamples, channelData, wpc>>
    /\ UNCHANGED outsideWav

\* audio.ts 203
ReturnWav ==
    /\ wpc = "samples"
    /\ wavIndex = totalSamples
    /\ wpc' = "done"
    /\ UNCHANGED <<sampleRate, totalSamples, channelData, view, wavOffset,
                   wavIndex, wavChannel>>
    /\ UNCHANGED outsideWav

NextWav == WriteHeader \/ WriteSample \/ ReturnWav

SpecWav == InitWav /\ [][NextWav]_vars

(***************************************************************************)
(* Claims about audioBufferToWav                                           *)
(***************************************************************************)
\* the fields a reader of the file decodes at a byte offset
U16At(offset) == view[offset + 1] + 256 * view[offset + 2]
U32At(offset) ==
    view[offset + 1] + 256 * view[offset + 2] + 65536 * view[offset + 3]
        + 16777216 * view[offset + 4]
I16At(offset) ==
    IF U16At(offset) >= 32768 THEN U16At(offset) - 65536 ELSE U16At(offset)

\* the buffer of C10: one channel, 8000 Hz, samples 0.0, 1.0, -1.0, 0.5
C10_Input ==
    /\ sampleRate = 8000
    /\ channelData = << <<0, 2, -2, 1>> >>

\* the header fields C10 names, decoded from the bytes written
C10_Header ==
    /\ Len(view) = 52
    /\ U32At(4) = 44
    /\ U16At(22) = 1
    /\ U32At(24) = 8000
    /\ U32At(28) = 16000
    /\ U16At(32) = 2
    /\ U16At(34) = 16
    /\ U32At(40) = 8

\* C10 as stated: the header fields are ChunkSize 44, NumChannels 1,
\* SampleRate 8000, ByteRate 16000, BlockAlign 2, bit depth 16,
\* Subchunk2Size 8 and the data samples are 0, 32767, -32768, 16384.
C10_AsStated ==
    (C10_Input /\ wpc = "done") =>
        /\ C10_Header
        /\ <<I16At(44), I16At(46), I16At(48), I16At(50)>> = <<0, 32767, -32768, 16384>>

\* C10 as amended: the same header fields, and the data samples are
\* 0, 32767, -32768, 16383 (0.5 * 32767 = 16383.5 is truncated).
C10_Truncated ==
    (C10_Input /\ wpc = "done") =>
        /\ C10_Header
        /\ <<I16At(44), I16At(46), I16At(48), I16At(50)>> = <<0, 32767, -32768, 16383>>

\* the file of that buffer has been returned
C10_Witness == C10_Input /\ wpc = "done"

(***************************************************************************)
(* mergeAdjacentTalkSegments applied to its own output                     *)
(***************************************************************************)
\* largest number of segments in an input of the merge
MaxMergeSegments == 3

\* sample rate that fixes the unit of the merge inputs: 0.05 s is 400 samples
MergeSampleRates == {8000}

\* starts and durations (in samples) of the segments of an input: any
\* order, with gaps of exactly the tolerance (400), just over it (401),
\* overlaps and zero durations
MergeStarts == {0, 1000, 1400, 1401, 2000}
MergeDurations == {0, 1000}

MergeSegments ==
    { [id |-> SegId(kd, 0), kind |-> kd, start |-> st, duration |-> du] :
        kd \in {"idle", "talk"}, st \in MergeStarts, du \in MergeDurations }

MergeInputs == UNION { SeqsOfLen(MergeSegments, n) : n \in 0..MaxMergeSegments }

InitMerge ==
    /\ SegOff
    /\ PlanOff
    /\ channelData = <<>>
    /\ view = <<>>
    /\ wavOffset = 0
    /\ wavIndex = 0
    /\ wavChannel = 0
    /\ wpc = "off"
    /\ sampleRate \in MergeSampleRates
    /\ totalSamples = 0
    /\ mergeInput \in MergeInputs
    /\ mergeOnce = <<>>
    /\ mergeTwice = <<>>
    /\ mpc = "start"
    /\ attempt = 0
    /\ requests = 0
    /\ lastResponse = NoResponse
    /\ earlierPending = TRUE
    /\ waitMs = 0
    /\ vpc = "off"

\* mergeAdjacentTalkSegments(segments, TALK_GAP_TOLERANCE_SEC)
MergeFirst ==
    /\ mpc = "start"
    /\ mergeOnce' = mergeAdjacentTalkSegments(mergeInput, sampleRate)
    /\ mpc' = "once"
    /\ UNCHANGED <<mergeInput, mergeTwice>>
    /\ UNCHANGED outsideMerge

\* the same call on the list just returned
MergeSecond ==
    /\ mpc = "once"
    /\ mergeTwice' = mergeAdjacentTalkSegments(mergeOnce, sampleRate)
    /\ mpc' = "twice"
    /\ UNCHANGED <<mergeInput, mergeOnce>>
    /\ UNCHANGED outsideMerge

NextMerge == MergeFirst \/ MergeSecond

SpecMerge == InitMerge /\ [][NextMerge]_vars

\* C13: mergeAdjacentTalkSegments applied to its own output returns that
\* output, and after one pass no two adjacent talk segments are within the
\* tolerance of each other.
C13_MergeIdempotent ==
    /\ mpc = "twice" => mergeTwice = mergeOnce
    /\ mpc \in {"once", "twice"} =>
         \A k \in 1..(Len(mergeOnce) - 1) :
             (mergeOnce[k].kind = "talk" /\ mergeOnce[k + 1].kind = "talk") =>
                 ~withinTolerance(
                     mergeOnce[k + 1].start
                       - (mergeOnce[k].start + mergeOnce[k].duration),
                     sampleRate)

\* the merge was applied twice to a list of three talk segments that the
\* first pass joined into one
C13_Witness ==
    /\ mpc = "twice"
    /\ Len(mergeInput) = 3
    /\ Len(mergeOnce) = 1
    /\ mergeOnce[1].duration > mergeInput[1].duration

(***************************************************************************)
(* analyzeAudio: the windower (audio.ts 23-55)                             *)
(***************************************************************************)
\* sample rates of the windower's inputs: two common rates and the two
\* pull-up rates 44100 * 1.001 and 48000 * 1.001
WindowSampleRates == {8000, 44100, 44144, 48048}

\* loudness values (thousandths) the windower computes
WindowLevels == {0, 100}

InitWindow ==
    /\ PlanOff
    /\ WavOff
    /\ sampleRate \in WindowSampleRates
    /\ totalSamples \in BufferLengths(sampleRate)
    /\ rmsValues = <<>>
    /\ block = 0
    /\ currentKind = "idle"
    /\ currentStart = 0
    /\ silenceBlocks = 0
    /\ segments = <<>>
    /\ apc = "rms"

\* one iteration of the loudness loop (audio.ts 34-55): a window without
\* samples gets 0, any other window the root mean square of its samples
PushRms ==
    /\ apc = "rms"
    /\ block < blockCountOf(sampleRate, totalSamples)
    /\ LET start == block * blockSizeOf(sampleRate)
           end == Min(start + blockSizeOf(sampleRate), totalSamples)
       IN \E value \in WindowLevels :
             /\ end - start <= 0 => value = 0
             /\ rmsValues' = Append(rmsValues, value)
    /\ block' = block + 1
    /\ UNCHANGED <<sampleRate, totalSamples, currentKind, currentStart,
                   silenceBlocks, segments, apc>>
    /\ UNCHANGED outsideSeg

\* the loudness loop ends: block = blockCount
RmsDone ==
    /\ apc = "rms"
    /\ block = blockCountOf(sampleRate, totalSamples)
    /\ apc' = "rmsDone"
    /\ UNCHANGED <<sampleRate, totalSamples, rmsValues, block, currentKind,
                   currentStart, silenceBlocks, segments>>
    /\ UNCHANGED outsideSeg

NextWindow ==
    \/ PushRms
    \/ RmsDone

SpecWindow == InitWindow /\ [][NextWindow]_vars

\* n = ceil(total / size)
IsCeilOfQuotient(n, total, size) ==
    /\ n >= 0
    /\ (n - 1) * size < total
    /\ total <= n * size

\* the loudness values cover the buffer window by window: there are
\* ceil(totalSamples / size) of them once the loop has ended, and every
\* window pushed so far began inside the buffer
WindowsOfSize(size) ==
    /\ size >= 1
    /\ Len(rmsValues) = block
    /\ \A k \in 1..Len(rmsValues) : (k - 1) * size < totalSamples
    /\ apc = "rmsDone" => IsCeilOfQuotient(Len(rmsValues), totalSamples, size)

\* the window sizes looked at: the whole numbers within 2 of sampleRate * 0.08
WindowSizes(sr) ==
    {size \in ((sr * WINDOW_SIZE_CS) \div 100 - 2)..((sr * WINDOW_SIZE_CS) \div 100 + 2) :
        size >= 1}

\* C19 as stated: the window is max(1, round(sampleRate * 0.08)) samples long
\* and the windower produces ceil(totalSamples / windowSamples) values.
C19_RoundedWindow ==
    apc \in {"rms", "rmsDone"} =>
        \E size \in WindowSizes(sampleRate) :
            /\ \/ 100 * size - 50 <= WINDOW_SIZE_CS * sampleRate
                  /\ WINDOW_SIZE_CS * sampleRate < 100 * size + 50
               \/ size = 1 /\ WINDOW_SIZE_CS * sampleRate < 50
            /\ WindowsOfSize(size)

\* C19 as amended: the window is max(1, floor(sampleRate * 0.08)) samples
\* long and the windower produces ceil(totalSamples / windowSamples) values.
C19_FlooredWindow ==
    apc \in {"rms", "rmsDone"} =>
        \E size \in WindowSizes(sampleRate) :
            /\ \/ 100 * size <= WINDOW_SIZE_CS * sampleRate
                  /\ WINDOW_SIZE_CS * sampleRate < 100 * (size + 1)
               \/ size = 1 /\ WINDOW_SIZE_CS * sampleRate < 100
            /\ WindowsOfSize(size)

\* the windower has finished a buffer at 48048 Hz, where sampleRate * 0.08 is
\* 3843.84, of several whole windows and a partial one
C19_Witness ==
    /\ apc = "rmsDone"
    /\ sampleRate = 48048
    /\ Len(rmsValues) >= 3
    /\ totalSamples % 3843 # 0
    /\ totalSamples = (Len(rmsValues) - 1) * 3843 + 1

(***************************************************************************)
(* waitForVoicevoxCloudAudio (tts.ts 130-152), times in milliseconds       *)
(***************************************************************************)
\* const maxAttempts = 90
maxAttempts == 90

\* retryAfter * 1000 of a status response, <<>> when the field is absent:
\* negative, zero, below the floor, a fraction of seconds inside the range,
\* the ceiling, above it
RetryAfterValues == {<<>>, <<-5000>>, <<0>>, <<500>>, <<2500>>, <<5000>>, <<7000>>}

\* what a status request can answer: statusResponse.ok and the fields of
\* VoicevoxCloudStatusResponse the function reads (an absent flag is FALSE)
Responses ==
    [ok : BOOLEAN, success : BOOLEAN, isAudioError : BOOLEAN,
     isAudioReady : BOOLEAN, retryAfter : RetryAfterValues]

\* (mutation of clampWait: the Math.min(5000, ...) is missing)
clampWait_noCeiling(retryAfter) ==
    Max(1000, IF retryAfter = <<>> THEN 1000 ELSE retryAfter[1])

\* Math.min(5000, Math.max(1000, (data.retryAfter ?? 1) * 1000))
clampWait(retryAfter) ==
    Min(5000, Max(1000, IF retryAfter = <<>> THEN 1000 ELSE retryAfter[1]))

\* the response lets the loop go on: none of the throws, not ready
Pending(r) == r.ok /\ r.success /\ ~r.isAudioError /\ ~r.isAudioReady

InitPoll ==
    /\ SegOff
    /\ PlanOff
    /\ sampleRate = 0
    /\ totalSamples = 0
    /\ channelData = <<>>
    /\ view = <<>>
    /\ wavOffset = 0
    /\ wavIndex = 0
    /\ wavChannel = 0
    /\ wpc = "off"
    /\ mergeInput = <<>>
    /\ mergeOnce = <<>>
    /\ mergeTwice = <<>>
    /\ mpc = "off"
    /\ attempt = 0
    /\ requests = 0
    /\ lastResponse = NoResponse
    /\ earlierPending = TRUE
    /\ waitMs = 0
    /\ vpc = "running"

\* one iteration of the loop (tts.ts 132-150): the request, the three
\* throws, the return, else the clamped delay
PollAttempt ==
    /\ vpc = "running"
    /\ attempt < maxAttempts
    /\ \E r \in Responses :
          /\ lastResponse' = r
          /\ IF ~r.ok THEN vpc' = "threw-status" /\ UNCHANGED <<attempt, waitMs>>
             ELSE IF ~r.success
                  THEN vpc' = "threw-failed" /\ UNCHANGED <<attempt, waitMs>>
             ELSE IF r.isAudioError
                  THEN vpc' = "threw-audio" /\ UNCHANGED <<attempt, waitMs>>
             ELSE IF r.isAudioReady
                  THEN vpc' = "returned" /\ UNCHANGED <<attempt, waitMs>>
             ELSE /\ waitMs' = clampWait(r.retryAfter)
                  /\ attempt' = attempt + 1
                  /\ vpc' = "running"
    /\ requests' = requests + 1
    /\ earlierPending' = (earlierPending /\ (requests = 0 \/ Pending(lastResponse)))
    /\ UNCHANGED outsidePoll

\* the loop ran out (tts.ts 151)
PollTimeout ==
    /\ vpc = "running"
    /\ attempt = maxAttempts
    /\ vpc' = "threw-timeout"
    /\ UNCHANGED <<attempt, requests, lastResponse, earlierPending, waitMs>>
    /\ UNCHANGED outsidePoll

NextPoll ==
    \/ PollAttempt
    \/ PollTimeout

\* every status request is answered and every delay ends
SpecPoll == InitPoll /\ [][NextPoll]_vars /\ WF_vars(NextPoll)

PollEnded == vpc \in {"returned", "threw-status", "threw-failed", "threw-audio",
                      "threw-timeout"}

PollOutcome ==
    /\ requests <= maxAttempts
    /\ earlierPending
    /\ vpc = "returned" =>
          /\ lastResponse.ok /\ lastResponse.success
          /\ ~lastResponse.isAudioError /\ lastResponse.isAudioReady
    /\ requests > 0 /\ ~lastResponse.ok => vpc = "threw-status"
    /\ requests > 0 /\ lastResponse.ok /\ ~lastResponse.success
          => vpc = "threw-failed"
    /\ requests > 0 /\ lastResponse.ok /\ lastResponse.success
          /\ lastResponse.isAudioError
          => vpc = "threw-audio"
    /\ vpc \in {"threw-status", "threw-failed", "threw-audio"} =>
          ~lastResponse.ok \/ ~lastResponse.success \/ lastResponse.isAudioError
    /\ vpc = "threw-timeout" =>
          requests = maxAttempts /\ Pending(lastResponse)
    /\ requests > 0 /\ Pending(lastResponse) =>
          /\ waitMs >= 1000
          /\ waitMs <= 5000
          /\ \A ms \in 1000..5000 :
                lastResponse.retryAfter = <<ms>> => waitMs = ms
    /\ requests > 1 => waitMs >= 1000 /\ waitMs <= 5000

\* C20: waitForVoicevoxCloudAudio ends after at most 90 status requests
\* whatever the responses are; it returns only on a response with success,
\* without isAudioError and with isAudioReady; it throws at the first
\* response that is not ok, has success false or has isAudioError (also when
\* isAudioReady is set in the same response); it throws the timeout when
\* none of 90 responses is ready; every wait lies between 1000 ms and
\* 5000 ms.
C20_PollEnds == []PollOutcome /\ <>PollEnded

\* the 90th request is answered with both isAudioError and isAudioReady and
\* the function throws, after 89 waits the last of which was cut to 5000 ms
C20_Witness ==
    /\ vpc = "threw-audio"
    /\ requests = maxAttempts
    /\ lastResponse.isAudioError
    /\ lastResponse.isAudioReady
    /\ waitMs = 5000

====
